---- MODULE Spec2Model ----
(***************************************************************************)
(* Model of YarnPackageManager.getDependencyChain (src/src/helpers/yarn.ts) *)
(* and of the private methods it runs: parseYarnWhyOutput,                  *)
(* extractVersionLines, extractDependencyChains, extractChainFromTree      *)
(* (specification Spec), and of one run of main of src/src/index.ts with    *)
(* suggestReason, askAiForSuggestion and AzureAIClient (specification       *)
(* SpecMain).                                                               *)
(*                                                                          *)
(* A JavaScript string is a sequence of symbols.  A symbol is either one    *)
(* character or one of the fixed literals the program searches for, joins   *)
(* with or returns (QUOTE, PROJECT, FOUND, ...), taken as indivisible.      *)
(* A transcript is the sequence of its lines; a line is the JSON value it   *)
(* parses to, or a text JSON.parse rejects.                                 *)
(***************************************************************************)
EXTENDS Integers, Sequences, FiniteSets, TLC

VARIABLES
    pc,              \* position in getDependencyChain and its callees
    history,         \* the calls this YarnPackageManager has completed
    version,         \* argument `version`
    threw,           \* spawnSync threw
    status,          \* result.status of spawnSync (-1 when it threw)
    stdout,          \* result.stdout of spawnSync
    parserInvoked,   \* parseYarnWhyOutput has been called
    escaped,         \* an exception left getDependencyChain
    lines,           \* extractVersionLines: `lines`
    i,               \* extractVersionLines: index of the next line of the loop
    versionBlocks,   \* extractVersionLines: `versionBlocks`
    currentBlock,    \* extractVersionLines: `currentBlock`
    inVersionBlock,  \* extractVersionLines: `inVersionBlock`
    versionLines,    \* the stream extractVersionLines returned
    k,               \* extractDependencyChains: index of the next record
    chains,          \* extractDependencyChains: `chains`
    uniqueChains,    \* the list extractDependencyChains returned
    result,          \* the string getDependencyChain returned
    mainPc,          \* index.ts: position in main and its callees
    dryRun,          \* options.dryRun
    report,          \* options.report
    configExists,    \* main: `configExists`
    effects,         \* what the run has done to files and packages so far
    found,           \* packages of the scan result that have vulnerabilities
    packages,        \* the packages of the scan result that have vulnerabilities
    vulnerabilities, \* parseVulnerabilities: `vulnerabilities`
    aiOutcome,       \* how the last call of the Azure AI service went
    aiSuggestion,    \* suggestReason: `aiSuggestion`
    choice,          \* suggestReason: `choice`, the last answer typed
    devDependencies, \* parseVulnerabilities: `devDependencies`
    pkgName,         \* parseVulnerabilities: `pkgName` of the package treated
    depChain,        \* parseVulnerabilities: `depChain` of the package treated
    isDevDependency, \* suggestReason: `isDevDependency`
    config,          \* the entries of the text generateTomlConfig returned
    exitCode         \* argument of process.exit (-1 while running)

yarnVars == <<pc, history, version, threw, status, stdout, parserInvoked, escaped,
              lines, i, versionBlocks, currentBlock, inVersionBlock, versionLines,
              k, chains, uniqueChains, result>>

mainVars == <<mainPc, dryRun, report, configExists, effects, found, packages,
              vulnerabilities,
              aiOutcome, aiSuggestion, choice, devDependencies, pkgName, depChain,
              isDevDependency, config, exitCode>>

(* The scan result, and the variables of the package parseVulnerabilities
   is treating. *)
packageVars == <<packages, pkgName, depChain, isDevDependency>>

vars == <<yarnVars, mainVars>>

-----------------------------------------------------------------------------
(* Symbols of the strings *)

QUOTE == "\""
PROJECT == "_project_#"
WS_SPACE == "workspace aggregator"
WS_DASH == "workspace-aggregator"
FOUND == "=> Found"
AT == "@"
DEPENDS == " depends on it"
EXISTS_BECAUSE == "exists because "
PIPE == " | "
ARROW == " \\u00E2\\u2020\\u2019 "

NoTranscript == <<"Unable to determine dependency chain">>
ParseFailed == <<"Unable to parse yarn output">>

(* String.prototype.includes: `sub` occurs in `s` as a contiguous run. *)
Includes(s, sub) ==
    \E p \in 1..(Len(s) + 1) :
        /\ p + Len(sub) - 1 <= Len(s)
        /\ SubSeq(s, p, p + Len(sub) - 1) = sub

(* String.prototype.replace(literal, ""): only the FIRST occurrence of the
   literal is removed. *)
ReplaceFirst(s, sym) ==
    IF \E p \in 1..Len(s) : s[p] = sym
    THEN LET p == CHOOSE q \in 1..Len(s) :
                      /\ s[q] = sym
                      /\ \A r \in 1..(q - 1) : s[r] # sym
         IN  SubSeq(s, 1, p - 1) \o SubSeq(s, p + 1, Len(s))
    ELSE s

(* replace(/^"/, "") *)
StripLeadingQuote(s) ==
    IF Len(s) > 0 /\ s[1] = QUOTE THEN Tail(s) ELSE s

(* replace(/"$/, "") *)
StripTrailingQuote(s) ==
    IF Len(s) > 0 /\ s[Len(s)] = QUOTE THEN SubSeq(s, 1, Len(s) - 1) ELSE s

(* Array.prototype.join *)
RECURSIVE Join(_, _)
Join(list, sep) ==
    IF Len(list) = 0 THEN <<>>
    ELSE IF Len(list) = 1 THEN list[1]
    ELSE list[1] \o <<sep>> \o Join(Tail(list), sep)

(* Array.prototype.slice(0, n) *)
Slice(list, n) ==
    SubSeq(list, 1, IF Len(list) < n THEN Len(list) ELSE n)

-----------------------------------------------------------------------------
(* JSON values of the transcript lines.  Every line is a record of the same
   fields; `json` tells what JSON.parse makes of the text:
     "blank", "invalid"  JSON.parse throws
     "null"              the value null
     "scalar"            a number, string or boolean (it has no properties)
     "object"            an object; `type` is its data.type ("none": absent),
                         `shape` what its `data` property is, `str` the
                         string when it is one, `sub` data.data.type,
                         `itemsShape`/`items` data.data.items,
                         `treesShape`/`trees` data.data.trees. *)

Node(name, children) == [obj |-> TRUE, name |-> name, children |-> children]
NullNode == [obj |-> FALSE, name |-> <<>>, children |-> <<>>]

StrItem(s) == [isString |-> TRUE, s |-> s]
NumItem == [isString |-> FALSE, s |-> <<>>]

BlankLine ==
    [json |-> "blank", type |-> "none", shape |-> "absent", str |-> <<>>,
     sub |-> "none", itemsShape |-> "absent", items |-> <<>>,
     treesShape |-> "absent", trees |-> <<>>]

InvalidLine == [BlankLine EXCEPT !.json = "invalid"]
NullLine == [BlankLine EXCEPT !.json = "null"]
ScalarLine == [BlankLine EXCEPT !.json = "scalar"]
ObjectLine(type) == [BlankLine EXCEPT !.json = "object", !.type = type]

InfoLine(s) == [ObjectLine("info") EXCEPT !.shape = "string", !.str = s]
InfoNoData == ObjectLine("info")
InfoNumber == [ObjectLine("info") EXCEPT !.shape = "number"]
InfoEmptyArray == [ObjectLine("info") EXCEPT !.shape = "array"]
StepLine == [ObjectLine("step") EXCEPT !.shape = "object"]
UnknownLine == [ObjectLine("other") EXCEPT !.shape = "string", !.str = <<"something">>]

ListLine(sub, items) ==
    [ObjectLine("list") EXCEPT !.shape = "object", !.sub = sub,
                               !.itemsShape = "array", !.items = items]
ReasonsLine(strs) ==
    ListLine("reasons", [n \in 1..Len(strs) |-> StrItem(strs[n])])
ListNoData == ObjectLine("list")
ReasonsNoItems == [ObjectLine("list") EXCEPT !.shape = "object", !.sub = "reasons"]

TreeLine(trees) ==
    [ObjectLine("tree") EXCEPT !.shape = "object",
                               !.treesShape = "array", !.trees = trees]
TreeNumber == [ObjectLine("tree") EXCEPT !.shape = "object", !.treesShape = "number"]

-----------------------------------------------------------------------------
(* extractVersionLines *)

(* Mutant of LineThrows: a text JSON.parse rejects is handled like a record
   (as if the push preceded the parse). *)
LineThrows_InvalidKept(line) ==
    \/ line.json = "null"
    \/ line.json = "object" /\ line.type = "info" /\ line.shape \in {"number", "object"}

(* The try block of the loop body throws before it changes anything:
   JSON.parse rejects the text, `data.type` is read from null, or
   `info.includes` is called on a data that is truthy and has no such method
   (a number, an object). *)
LineThrows(line) ==
    \/ line.json \in {"blank", "invalid"}
    \/ line.json = "null"
    \/ line.json = "object" /\ line.type = "info" /\ line.shape \in {"number", "object"}

(* `data.data || ""`, as far as `includes` reads it: an absent data and an
   empty array contain no string. *)
InfoText(line) == IF line.shape = "string" THEN line.str ELSE <<>>

IsInfo(line) == line.json = "object" /\ line.type = "info"

(* info.includes("=> Found") *)
HasFound(info) == Includes(info, <<FOUND>>)

(* Mutant of HasVersion: the version must end where the quote (or the
   message) ends. *)
HasVersion_TokenBoundary(info, v) ==
    \E p \in 1..Len(info) :
        /\ p + Len(v) <= Len(info)
        /\ SubSeq(info, p, p + Len(v)) = <<AT>> \o v
        /\ (p + Len(v) = Len(info) \/ info[p + Len(v) + 1] = QUOTE)

(* info.includes(`@${version}`) *)
HasVersion(info, v) == Includes(info, <<AT>> \o v)

(* Mutant of OnMatchingMarker: the accumulator is emptied without being
   flushed. *)
OnMatchingMarker_NoFlush(st) ==
    [versionBlocks |-> st.versionBlocks,
     currentBlock |-> <<>>,
     inVersionBlock |-> TRUE]

(* The branch of a marker of the target version: lines 72-76. *)
OnMatchingMarker(st) ==
    [versionBlocks |-> IF Len(st.currentBlock) > 0
                       THEN Append(st.versionBlocks, st.currentBlock)
                       ELSE st.versionBlocks,
     currentBlock |-> <<>>,
     inVersionBlock |-> TRUE]

(* Mutant of OnOtherMarker: the marker of another version does not leave
   the block. *)
OnOtherMarker_StaysInside(st) ==
    [versionBlocks |-> IF st.inVersionBlock /\ Len(st.currentBlock) > 0
                       THEN Append(st.versionBlocks, st.currentBlock)
                       ELSE st.versionBlocks,
     currentBlock |-> <<>>,
     inVersionBlock |-> st.inVersionBlock]

(* Mutant of OnOtherMarker: the accumulator is flushed but not emptied. *)
OnOtherMarker_KeepsAccumulator(st) ==
    [versionBlocks |-> IF st.inVersionBlock /\ Len(st.currentBlock) > 0
                       THEN Append(st.versionBlocks, st.currentBlock)
                       ELSE st.versionBlocks,
     currentBlock |-> st.currentBlock,
     inVersionBlock |-> FALSE]

(* Mutant of OnOtherMarker: the accumulator is flushed whatever the state. *)
OnOtherMarker_AlwaysFlush(st) ==
    [versionBlocks |-> Append(st.versionBlocks, st.currentBlock),
     currentBlock |-> <<>>,
     inVersionBlock |-> FALSE]

(* The branch of a marker of another version: lines 78-82. *)
OnOtherMarker(st) ==
    [versionBlocks |-> IF st.inVersionBlock /\ Len(st.currentBlock) > 0
                       THEN Append(st.versionBlocks, st.currentBlock)
                       ELSE st.versionBlocks,
     currentBlock |-> <<>>,
     inVersionBlock |-> FALSE]

(* Mutant of Retain: the record is pushed whatever the state. *)
Retain_Always(st, line, idx) ==
    [st EXCEPT !.currentBlock = Append(@, [idx |-> idx, rec |-> line])]

(* if (inVersionBlock) currentBlock.push(data): lines 86-88.  idx is the
   identity of the object JSON.parse returned for the line. *)
Retain(st, line, idx) ==
    IF st.inVersionBlock
    THEN [st EXCEPT !.currentBlock = Append(@, [idx |-> idx, rec |-> line])]
    ELSE st

(* One iteration of the for loop over `lines`; st is the triple
   (versionBlocks, currentBlock, inVersionBlock). *)
SegmentStep(st, line, idx, v) ==
    IF LineThrows(line) THEN st
    ELSE LET info == InfoText(line)
         IN  Retain(IF IsInfo(line) /\ HasFound(info) /\ HasVersion(info, v)
                    THEN OnMatchingMarker(st)
                    ELSE IF IsInfo(line) /\ HasFound(info)
                    THEN OnOtherMarker(st)
                    ELSE st,
                    line, idx)

(* Mutant of FinalBlocks: the block open at the end of the stream is lost. *)
FinalBlocks_NoFlush(st) == st.versionBlocks

(* The flush after the loop. *)
FinalBlocks(st) ==
    IF st.inVersionBlock /\ Len(st.currentBlock) > 0
    THEN Append(st.versionBlocks, st.currentBlock)
    ELSE st.versionBlocks

(* allVersionLines: the blocks, concatenated. *)
RECURSIVE Flatten(_)
Flatten(blocks) ==
    IF Len(blocks) = 0 THEN <<>> ELSE Head(blocks) \o Flatten(Tail(blocks))

-----------------------------------------------------------------------------
(* extractChainFromTree: the chain, or null. *)

NullChain == [isNull |-> TRUE, s |-> <<>>]
SomeChain(s) == [isNull |-> FALSE, s |-> s]

RECURSIVE extractChainFromTree(_, _)
extractChainFromTree(tree, parentChain) ==
    IF ~tree.obj THEN NullChain
    ELSE LET name == tree.name
             currentChain == IF Len(parentChain) > 0
                             THEN parentChain \o <<ARROW>> \o name
                             ELSE name
         IN  IF Len(tree.children) > 0
             THEN extractChainFromTree(tree.children[1], currentChain)
             ELSE SomeChain(currentChain)

-----------------------------------------------------------------------------
(* extractDependencyChains *)

(* chain.includes("workspace aggregator") || chain.includes("workspace-aggregator") *)
IsAggregator(chain) ==
    Includes(chain, <<WS_SPACE>>) \/ Includes(chain, <<WS_DASH>>)

(* The test that guards chains.push in the list and info branches. *)
Kept(chain) == Len(chain) > 0 /\ ~IsAggregator(chain)

(* item.replace(/^"/, "").replace(/"$/, "").replace("_project_#", "") *)
CleanReason(item) ==
    ReplaceFirst(StripTrailingQuote(StripLeadingQuote(item)), PROJECT)

(* capture.replace("_project_#", "") *)
CleanCapture(capture) == ReplaceFirst(capture, PROJECT)

(* "([^"]+)" depends on it matches at p: a quote, one or more symbols that
   are no quote, a quote, and the literal. *)
QuotedDependsAt(info, p) ==
    /\ p + 3 <= Len(info)
    /\ info[p] = QUOTE
    /\ \E q \in (p + 2)..(Len(info) - 1) :
           /\ info[q] = QUOTE
           /\ \A r \in (p + 1)..(q - 1) : info[r] # QUOTE
           /\ info[q + 1] = DEPENDS

CaptureAt(info, p) ==
    LET q == CHOOSE q \in (p + 2)..(Len(info) - 1) :
                 /\ info[q] = QUOTE
                 /\ \A r \in (p + 1)..(q - 1) : info[r] # QUOTE
    IN  SubSeq(info, p + 1, q - 1)

(* Mutant of dependsMatch: the pattern is anchored at the beginning of the
   message. *)
dependsMatch_Anchored(info) ==
    IF QuotedDependsAt(info, 1) THEN SomeChain(CaptureAt(info, 1)) ELSE NullChain

(* info.match(/"([^"]+)" depends on it/) *)
dependsMatch(info) ==
    IF \E p \in 1..Len(info) : QuotedDependsAt(info, p)
    THEN LET p == CHOOSE p \in 1..Len(info) :
                      /\ QuotedDependsAt(info, p)
                      /\ \A r \in 1..(p - 1) : ~QuotedDependsAt(info, r)
         IN  SomeChain(CaptureAt(info, p))
    ELSE NullChain

(* info.match(/exists because "([^"]+)" depends on it/) *)
existsMatch(info) ==
    IF \E p \in 1..Len(info) :
           info[p] = EXISTS_BECAUSE /\ QuotedDependsAt(info, p + 1)
    THEN LET p == CHOOSE p \in 1..Len(info) :
                      /\ info[p] = EXISTS_BECAUSE /\ QuotedDependsAt(info, p + 1)
                      /\ \A r \in 1..(p - 1) :
                             ~(info[r] = EXISTS_BECAUSE /\ QuotedDependsAt(info, r + 1))
         IN  SomeChain(CaptureAt(info, p + 1))
    ELSE NullChain

(* What one record of versionLines does to `chains`: the chains it pushes, in
   order, and whether a TypeError ended the loop (after the pushes made
   before it). *)
NoPush == [threw |-> FALSE, pushed |-> <<>>]
Threw == [threw |-> TRUE, pushed |-> <<>>]

(* for (const item of items): item.replace of an item that is no string
   throws. *)
RECURSIVE ReasonsBranch(_)
ReasonsBranch(items) ==
    IF Len(items) = 0 THEN NoPush
    ELSE IF ~Head(items).isString THEN Threw
    ELSE LET chain == CleanReason(Head(items).s)
             rest == ReasonsBranch(Tail(items))
         IN  [rest EXCEPT !.pushed =
                  (IF Kept(chain) THEN <<chain>> ELSE <<>>) \o @]

(* Mutant of TreeBranch: the loop over the roots ends at the first root
   that gives no chain. *)
RECURSIVE TreeBranch_StopsAtNull(_)
TreeBranch_StopsAtNull(trees) ==
    IF Len(trees) = 0 THEN <<>>
    ELSE LET chain == extractChainFromTree(Head(trees), <<>>)
         IN  IF ~chain.isNull /\ Len(chain.s) > 0
             THEN <<chain.s>> \o TreeBranch_StopsAtNull(Tail(trees))
             ELSE <<>>

(* Mutant of TreeBranch: the chain of a tree goes through the cleaning and
   the filter of the other two branches. *)
RECURSIVE TreeBranch_Normalized(_)
TreeBranch_Normalized(trees) ==
    IF Len(trees) = 0 THEN <<>>
    ELSE LET chain == extractChainFromTree(Head(trees), <<>>)
         IN  (IF ~chain.isNull /\ Kept(CleanCapture(chain.s))
              THEN <<CleanCapture(chain.s)>> ELSE <<>>)
                 \o TreeBranch_Normalized(Tail(trees))

(* for (const tree of trees): a null chain and an empty chain are not pushed. *)
RECURSIVE TreeBranch(_)
TreeBranch(trees) ==
    IF Len(trees) = 0 THEN <<>>
    ELSE LET chain == extractChainFromTree(Head(trees), <<>>)
         IN  (IF ~chain.isNull /\ Len(chain.s) > 0 THEN <<chain.s>> ELSE <<>>)
                 \o TreeBranch(Tail(trees))

(* Mutant of InfoBranch: the capture is pushed without the test of
   yarn.ts:146-152. *)
InfoBranch_NoFilter(info) ==
    LET dm == dependsMatch(info)
    IN  IF ~dm.isNull /\ Len(dm.s) > 0 THEN <<CleanCapture(dm.s)>> ELSE <<>>

(* The info branch: dependsMatch first, existsMatch only when it is null or
   its capture is empty. *)
InfoBranch(info) ==
    LET dm == dependsMatch(info)
        em == existsMatch(info)
    IN  IF ~dm.isNull /\ Len(dm.s) > 0
        THEN (IF Kept(CleanCapture(dm.s)) THEN <<CleanCapture(dm.s)>> ELSE <<>>)
        ELSE IF ~em.isNull /\ Len(em.s) > 0
        THEN (IF Kept(CleanCapture(em.s)) THEN <<CleanCapture(em.s)>> ELSE <<>>)
        ELSE <<>>

(* Mutant of ExtractRecord: the items of every List record are read,
   whatever its sub-kind. *)
ExtractRecord_AnyList(data) ==
    IF data.json # "object" THEN NoPush
    ELSE IF data.type = "list"
    THEN ReasonsBranch(IF data.itemsShape = "array" THEN data.items ELSE <<>>)
    ELSE IF data.type = "tree" /\ data.shape = "object" /\ data.treesShape = "array"
    THEN [threw |-> FALSE, pushed |-> TreeBranch(data.trees)]
    ELSE IF data.type = "info" /\ data.shape = "string"
    THEN [threw |-> FALSE, pushed |-> InfoBranch(data.str)]
    ELSE NoPush

(* The body of the loop over versionLines. *)
ExtractRecord(data) ==
    IF data.json # "object" THEN NoPush
    ELSE IF data.type = "list" /\ data.shape = "object" /\ data.sub = "reasons"
    THEN (IF data.itemsShape = "number" THEN Threw
          ELSE ReasonsBranch(IF data.itemsShape = "array" THEN data.items ELSE <<>>))
    ELSE IF data.type = "tree"
    THEN (IF data.shape = "object" /\ data.treesShape = "number" THEN Threw
          ELSE [threw |-> FALSE,
                pushed |-> TreeBranch(IF data.shape = "object" /\ data.treesShape = "array"
                                      THEN data.trees ELSE <<>>)])
    ELSE IF data.type = "info"
    THEN (IF data.shape \in {"array", "number", "object"} THEN Threw
          ELSE [threw |-> FALSE, pushed |-> InfoBranch(InfoText(data))])
    ELSE NoPush

(* Mutant of RemoveDuplicates: `seen` is never consulted. *)
RemoveDuplicates_KeepsAll(list, seen) == list

(* "Remove duplicates": the loop over `chains` with the `seen` set. *)
RECURSIVE RemoveDuplicates(_, _)
RemoveDuplicates(list, seen) ==
    IF Len(list) = 0 THEN <<>>
    ELSE IF Head(list) \in seen THEN RemoveDuplicates(Tail(list), seen)
    ELSE <<Head(list)>> \o RemoveDuplicates(Tail(list), seen \cup {Head(list)})

-----------------------------------------------------------------------------
(* parseYarnWhyOutput *)

MaxChains == 5

(* output.trim().split("\n"): the blank lines at both ends go; a text with
   nothing else is one empty line. *)
RECURSIVE DropLeadingBlank(_)
DropLeadingBlank(text) ==
    IF Len(text) > 0 /\ Head(text).json = "blank"
    THEN DropLeadingBlank(Tail(text)) ELSE text

RECURSIVE DropTrailingBlank(_)
DropTrailingBlank(text) ==
    IF Len(text) > 0 /\ text[Len(text)].json = "blank"
    THEN DropTrailingBlank(SubSeq(text, 1, Len(text) - 1)) ELSE text

TrimSplit(text) ==
    LET t == DropTrailingBlank(DropLeadingBlank(text))
    IN  IF Len(t) = 0 THEN <<BlankLine>> ELSE t

(* Mutant of Capped: the cap is off by one. *)
Capped_OffByOne(dependencyChains) == Slice(dependencyChains, MaxChains + 1)

(* dependencyChains.slice(0, 5) *)
Capped(dependencyChains) == Slice(dependencyChains, MaxChains)

(* The return value of parseYarnWhyOutput for the list
   extractDependencyChains returned. *)
Serialize(dependencyChains) ==
    IF Len(dependencyChains) > 0
    THEN Join(Capped(dependencyChains), PIPE)
    ELSE ParseFailed

(* extractVersionLines, as a function of its arguments: the loop from line
   idx on, the last flush and the concatenation. *)
RECURSIVE SegmentFrom(_, _, _, _)
SegmentFrom(st, ls, idx, v) ==
    IF idx > Len(ls) THEN st
    ELSE SegmentFrom(SegmentStep(st, ls[idx], idx, v), ls, idx + 1, v)

extractVersionLines(ls, v) ==
    Flatten(FinalBlocks(SegmentFrom(
        [versionBlocks |-> <<>>, currentBlock |-> <<>>, inVersionBlock |-> FALSE],
        ls, 1, v)))

(* The loop of extractDependencyChains from record j on: the chains pushed,
   and whether a TypeError ended it. *)
RECURSIVE ExtractFrom(_, _)
ExtractFrom(vls, j) ==
    IF j > Len(vls) THEN NoPush
    ELSE LET r == ExtractRecord(vls[j].rec)
         IN  IF r.threw THEN r
             ELSE LET rest == ExtractFrom(vls, j + 1)
                  IN  [rest EXCEPT !.pushed = r.pushed \o @]

(* parseYarnWhyOutput, as a function of its arguments: the string it
   returns, or the exception that leaves it. *)
parseYarnWhyOutput(text, v) ==
    LET extracted == ExtractFrom(extractVersionLines(TrimSplit(text), v), 1)
    IN  IF extracted.threw
        THEN [threw |-> TRUE, value |-> <<>>]
        ELSE [threw |-> FALSE,
              value |-> Serialize(RemoveDuplicates(extracted.pushed, {}))]

-----------------------------------------------------------------------------
(* getDependencyChain *)

(* A stdout is null or a text, the sequence of its lines (joined by "\n").
   The empty string is the text of no line, or of one empty line. *)
NullStdout == [isNull |-> TRUE, text |-> <<>>]
Text(text) == [isNull |-> FALSE, text |-> text]

(* if (result.stdout): neither null nor "". *)
Truthy(out) ==
    /\ ~out.isNull
    /\ Len(out.text) > 0
    /\ ~(Len(out.text) = 1 /\ out.text[1].json = "blank")

(* Mutant of ParsesOutput: only a null stdout is refused. *)
ParsesOutput_NullOnly(spawned) == ~spawned.throws /\ ~spawned.stdout.isNull

(* Whether the result of spawnSync is handed to parseYarnWhyOutput: the test
   reads result.stdout alone, never result.status. *)
ParsesOutput(spawned) == ~spawned.throws /\ Truthy(spawned.stdout)

(* What the catch block makes of an exception thrown in the try block. *)
Caught == [escaped |-> FALSE, result |-> NoTranscript]

-----------------------------------------------------------------------------
(* Inputs *)

MaxSegmentLines == 4
MaxPayloadLines == 2

VersionA == <<"7", ".", "0">>
VersionB == <<"6", ".", "0">>
VersionLong == <<"7", ".", "0", ".", "6">>
VersionSuffix == <<"0", ".", "6">>

(* {"type":"info","data":"\r=> Found \"pkg@<v>\""} *)
Marker(v) == InfoLine(<<FOUND, QUOTE, "pkg", AT>> \o v \o <<QUOTE>>)

(* Lines that exercise the segmenter. *)
SegmentPool ==
    { Marker(VersionA), Marker(VersionB), Marker(VersionLong),
      ReasonsLine(<< <<"a">> >>), ReasonsLine(<< <<"b">> >>),
      InvalidLine, InfoNumber }

(* Lines that exercise the extractor. *)
PayloadPool ==
    { ReasonsLine(<< <<PROJECT, "a">>, <<"b", "#", "a">> >>),
      ReasonsLine(<< <<QUOTE, PROJECT, "a", QUOTE>> >>),
      ReasonsLine(<< <<PROJECT, PROJECT, "a">> >>),
      ReasonsLine(<< <<WS_SPACE, "a">>, <<"c">> >>),
      ReasonsLine(<< <<QUOTE, WS_DASH, "0", QUOTE, DEPENDS>>,
                     <<"Hoisted from ", QUOTE, PROJECT, "e", "#", "a", QUOTE>> >>),
      ReasonsLine(<< <<"b">>, <<"b">>, <<"c">>, <<"b">> >>),
      ReasonsLine(<< <<"c1">>, <<"c2">>, <<"c3">>, <<"c4">>,
                     <<"c5">>, <<"c6">>, <<"c7">> >>),
      ReasonsLine(<< <<"a", PIPE, "b">> >>),
      ReasonsLine(<< <<PROJECT>>, <<QUOTE>> >>),
      ReasonsLine(<< >>),
      ReasonsNoItems,
      ListLine("reasons", << StrItem(<<"c">>), NumItem, StrItem(<<"d">>) >>),
      ListLine("reasons", << NumItem >>),
      [ReasonsNoItems EXCEPT !.itemsShape = "number"],
      ListLine("other", << StrItem(<<"x">>) >>),
      ListNoData,
      TreeLine(<< Node(<<"root">>, << Node(<<"b">>, << Node(<<"a">>, <<>>) >>),
                                      Node(<<"s">>, <<>>) >>) >>),
      TreeLine(<< NullNode, Node(<<"valid">>, <<>>) >>),
      TreeLine(<< Node(<<PROJECT, "a">>, << Node(<<WS_DASH, "0">>, <<>>) >>) >>),
      TreeLine(<< Node(<<"r">>, << NullNode >>), Node(<<>>, << Node(<<"c">>, <<>>) >>) >>),
      TreeLine(<< >>),
      TreeNumber,
      InfoLine(<<QUOTE, "a", QUOTE, DEPENDS>>),
      InfoLine(<<"This module ", EXISTS_BECAUSE, QUOTE, PROJECT, "b", "#", "g",
                 QUOTE, DEPENDS, ".">>),
      InfoLine(<<QUOTE, WS_DASH, "0", QUOTE, DEPENDS>>),
      InfoLine(<<QUOTE, PROJECT, QUOTE, DEPENDS>>),
      InfoLine(<<"Hoisted to ", QUOTE, "x", QUOTE, " and ", QUOTE, "c", QUOTE, DEPENDS>>),
      InfoLine(<<"Done">>),
      InfoNoData, InfoNumber, InfoEmptyArray,
      StepLine, UnknownLine, ObjectLine("none"), ScalarLine, NullLine, InvalidLine, BlankLine,
      Marker(VersionB) }

SeqsUpTo(S, n) == UNION {[1..m -> S] : m \in 0..n}

(* Transcripts of lines of the segment pool, for both target versions. *)
SegmentInputs ==
    { [throws |-> FALSE, status |-> 0, stdout |-> Text(t), version |-> v] :
          t \in SeqsUpTo(SegmentPool, MaxSegmentLines),
          v \in {VersionA, VersionB} }

(* A matching marker followed by lines of the payload pool. *)
PayloadInputs ==
    { [throws |-> FALSE, status |-> 0,
       stdout |-> Text(<<Marker(VersionA)>> \o t), version |-> VersionA] :
          t \in SeqsUpTo(PayloadPool, MaxPayloadLines) }

(* The process failed: spawnSync threw, gave no stdout, or reports a status
   other than 0. *)
FailureInputs ==
    { [throws |-> TRUE, status |-> -1, stdout |-> NullStdout, version |-> VersionA] }
    \cup
    { [throws |-> FALSE, status |-> st, stdout |-> out, version |-> VersionA] :
          st \in {0, 1},
          out \in {NullStdout, Text(<<>>), Text(<<BlankLine>>),
                   Text(<<BlankLine, BlankLine>>)}
                  \cup {Text(<<BlankLine, Marker(VersionA), l, BlankLine>>) :
                            l \in PayloadPool} }

(* The target version is the end of the version a marker announces. *)
SuffixInputs ==
    { [throws |-> FALSE, status |-> 0, stdout |-> Text(t), version |-> VersionSuffix] :
          t \in SeqsUpTo({Marker(VersionLong), Marker(VersionSuffix),
                          ReasonsLine(<< <<"a">> >>)}, 2) }

SpawnInputs == SegmentInputs \cup PayloadInputs \cup FailureInputs \cup SuffixInputs

MaxCalls == 3

(* The inputs of the calls that follow the first call on one instance. *)
RerunInputs ==
    { [throws |-> FALSE, status |-> 0, stdout |-> Text(t), version |-> v] :
          t \in { <<Marker(VersionA), ReasonsLine(<< <<"a">> >>),
                    Marker(VersionB), ReasonsLine(<< <<"b">> >>)>>,
                  <<ReasonsLine(<< <<"a">> >>)>> },
          v \in {VersionA, VersionB} }
    \cup
    { [throws |-> FALSE, status |-> 0,
       stdout |-> Text(<<Marker(VersionA), ListLine("reasons", << NumItem >>)>>),
       version |-> VersionA],
      [throws |-> TRUE, status |-> -1, stdout |-> NullStdout, version |-> VersionA] }

(* Mutant of LocalsAtEntry: the segmenter's state is kept on the instance
   from one call to the next. *)
LocalsAtEntry_Kept(left) == left

(* The segmenter's state at the entry of a call, given what the call before
   left: versionBlocks, currentBlock and inVersionBlock are locals of
   extractVersionLines, declared anew at each call. *)
LocalsAtEntry(left) ==
    [versionBlocks |-> <<>>, currentBlock |-> <<>>, inVersionBlock |-> FALSE]

-----------------------------------------------------------------------------
(* index.ts and helpers/azureAi.ts *)

MaxVulns == 2

(* What a run does to the files and to the installed packages. *)
RenameConfig == "fs.renameSync osv-scanner.toml"
WriteConfig == "fs.writeFileSync osv-scanner.toml"
WriteReport == "fs.writeFileSync osv-scanner-report.md"
AppendUsageLog == "fs.appendFileSync .azure_ai_usage.log"
UpdatePackages == "packageManager.update"

(* The value of askAiForSuggestion: null or the pair [choice, justification]. *)
NoSuggestion == [isNull |-> TRUE, choice |-> "", justification |-> ""]
Suggestion(c, j) == [isNull |-> FALSE, choice |-> c, justification |-> j]

(* How a call of the service goes: the environment variables are missing,
   the request fails, the answer is empty, has no braces, has braces around
   text that is no JSON, or is the JSON asked for. *)
AiOutcomes == {"missingEnv", "callFails", "emptyAnswer", "noJson", "badJson", "suggestion"}

(* AzureAIClient.askQuestion: the text of the answer, or null when the
   request throws or the answer is empty; a non-empty answer is logged by
   logUsage before it is returned. *)
askQuestion(outcome) ==
    IF outcome \in {"callFails", "emptyAnswer"}
    THEN [isNull |-> TRUE, text |-> "", effects |-> {}]
    ELSE [isNull |-> FALSE, text |-> outcome, effects |-> {AppendUsageLog}]

(* The try block of askAiForSuggestion: the constructor throws without the
   environment variables, JSON.parse throws on braces around no JSON. *)
TryAskAi(outcome) ==
    IF outcome = "missingEnv"
    THEN [threw |-> TRUE, value |-> NoSuggestion, effects |-> {}]
    ELSE LET response == askQuestion(outcome)
         IN  IF response.isNull \/ response.text = "noJson"
             THEN [threw |-> FALSE, value |-> NoSuggestion, effects |-> response.effects]
             ELSE IF response.text = "badJson"
             THEN [threw |-> TRUE, value |-> NoSuggestion, effects |-> response.effects]
             ELSE [threw |-> FALSE, value |-> Suggestion("2", "dev only"),
                   effects |-> response.effects]

(* Mutant of askAiForSuggestion: no catch block. *)
askAiForSuggestion_NoCatch(outcome) == TryAskAi(outcome)

(* askAiForSuggestion: the catch block prints a warning and returns null. *)
askAiForSuggestion(outcome) ==
    LET tried == TryAskAi(outcome)
    IN  IF tried.threw
        THEN [tried EXCEPT !.threw = FALSE, !.value = NoSuggestion]
        ELSE tried

(* depChain.split(sep) of the consumers: the runs of symbols between the
   occurrences of the separator (one part more than there are separators). *)
RECURSIVE Split(_, _)
Split(s, sep) ==
    IF \A p \in 1..Len(s) : s[p] # sep THEN <<s>>
    ELSE LET p == CHOOSE p \in 1..Len(s) :
                      s[p] = sep /\ \A q \in 1..(p - 1) : s[q] # sep
         IN  <<SubSeq(s, 1, p - 1)>> \o Split(SubSeq(s, p + 1, Len(s)), sep)

(* The separator the consumers split on when the chain has no " | ": the
   characters U+201A U+00DC U+00ED between two spaces. *)
ConsumerArrow == " \\u201A\\u00DC\\u00ED "

SPACE == " "

(* The symbols that begin with white space. *)
StartsWithSpace(sym) == sym \in {SPACE, PIPE, ARROW, ConsumerArrow}

(* part.trim() *)
RECURSIVE Trim(_)
Trim(part) ==
    IF Len(part) > 0 /\ Head(part) = SPACE THEN Trim(Tail(part))
    ELSE IF Len(part) > 0 /\ part[Len(part)] = SPACE
    THEN Trim(SubSeq(part, 1, Len(part) - 1))
    ELSE part

(* The symbols that hold white space after their first word. *)
HoldsSpace(sym) == sym \in {NoTranscript[1], ParseFailed[1]}

(* The first word of the two sentences getDependencyChain returns. *)
FirstWord(sym) == "Unable"

(* [^@\s]+ : the longest beginning of s without "@" and without white
   space. *)
RECURSIVE NameRun(_)
NameRun(s) ==
    IF Len(s) = 0 \/ Head(s) = AT \/ StartsWithSpace(Head(s)) THEN <<>>
    ELSE IF HoldsSpace(Head(s)) THEN <<FirstWord(Head(s))>>
    ELSE <<Head(s)>> \o NameRun(Tail(s))

(* cleaned.match(/^(@?[^@\s]+)/): the capture, or null. *)
NameMatch(cleaned) ==
    LET scoped == Len(cleaned) > 0 /\ Head(cleaned) = AT
        run == NameRun(IF scoped THEN Tail(cleaned) ELSE cleaned)
    IN  IF Len(run) = 0 THEN NullChain
        ELSE SomeChain((IF scoped THEN <<AT>> ELSE <<>>) \o run)

(* The split of the three consumers: on " | " when the chain has one, else
   on the arrow of index.ts. *)
ConsumerSplit(chain) ==
    IF Includes(chain, <<PIPE>>) THEN Split(chain, PIPE)
    ELSE Split(chain, ConsumerArrow)

RECURSIVE NamesOfParts(_)
NamesOfParts(parts) ==
    IF Len(parts) = 0 THEN <<>>
    ELSE LET match == NameMatch(Trim(Head(parts)))
         IN  (IF match.isNull THEN <<>> ELSE <<match.s>>) \o NamesOfParts(Tail(parts))

extractPackageNamesFromChain(chain) == NamesOfParts(ConsumerSplit(chain))

(* chain.toLowerCase(), symbol by symbol. *)
ToLowerCase(s) ==
    [n \in 1..Len(s) |-> IF s[n] = "devDependencies" THEN "devdependencies" ELSE s[n]]

(* suggestReason: the detection of a development dependency. *)
DetectDevDependency(chain, devDeps) ==
    \/ \E n \in 1..Len(extractPackageNamesFromChain(chain)) :
          extractPackageNamesFromChain(chain)[n] \in devDeps
    \/ Includes(ToLowerCase(chain), <<"devdependencies">>)
    \/ Includes(ToLowerCase(chain), <<"dev-dep">>)

(* The answers typed at the prompt "Votre choix (1-4)". *)
Choices == {"1", "2", "3", "4", "5", ""}

IsChoice(typed) == typed \in {"1", "2", "3", "4"}

(* suggestReason: the pair [reason, showAlternatives] of a choice (the
   reasons without their leading pictogram). *)
ReasonOf(typed) ==
    IF typed = "1" THEN [reason |-> "No fix available", show_alternatives |-> FALSE]
    ELSE IF typed = "2"
    THEN [reason |-> "Dev dependency only - not in production", show_alternatives |-> FALSE]
    ELSE IF typed = "3"
    THEN [reason |-> "Not accessible in production", show_alternatives |-> FALSE]
    ELSE [reason |-> "Requires manual review", show_alternatives |-> TRUE]

(* parseVulnerabilities: the entry pushed for a package, given the pair
   suggestReason returned. *)
Vulnerability(name, chain, pair) ==
    [name |-> name, dependency_chain |-> chain,
     reason |-> pair.reason, show_alternatives |-> pair.show_alternatives]

(* a.localeCompare(b) on the package names of the scan results. *)
localeCompare(a, b) == IF a = b THEN 0 ELSE IF a = "p" THEN -1 ELSE 1

(* [...vulnerabilities].sort(...): a stable sort by name (the versions of
   the scan results are equal). *)
RECURSIVE InsertSorted(_, _)
InsertSorted(v, sorted) ==
    IF Len(sorted) = 0 THEN <<v>>
    ELSE IF localeCompare(v.name, Head(sorted).name) < 0 THEN <<v>> \o sorted
    ELSE <<Head(sorted)>> \o InsertSorted(v, Tail(sorted))

RECURSIVE sortedVulns(_)
sortedVulns(vs) ==
    IF Len(vs) = 0 THEN <<>>
    ELSE InsertSorted(vs[Len(vs)], sortedVulns(SubSeq(vs, 1, Len(vs) - 1)))

(* Mutant of ConfigEntry: the block of alternative reasons is written for
   every entry. *)
ConfigEntry_AlwaysAlternatives(vuln) ==
    [name |-> vuln.name, depLines |-> ConsumerSplit(vuln.dependency_chain),
     alternativeReasons |-> TRUE, reason |-> vuln.reason]

(* generateTomlConfig: the [[PackageOverrides]] entry of one vulnerability;
   alternativeReasons tells whether the block "Alternative reasons to
   consider" is written. *)
ConfigEntry(vuln) ==
    [name |-> vuln.name, depLines |-> ConsumerSplit(vuln.dependency_chain),
     alternativeReasons |-> vuln.show_alternatives, reason |-> vuln.reason]

generateTomlConfig(vs) ==
    [n \in 1..Len(vs) |-> ConfigEntry(sortedVulns(vs)[n])]

(* main, step 6: what is written once the vulnerabilities are parsed. *)
ConfigEffects(dry, withReport) ==
    IF dry THEN {}
    ELSE {WriteConfig} \cup (IF withReport THEN {WriteReport} ELSE {})

(* getDependencyChain, as a function of what spawnSync gave. *)
getDependencyChain(spawned) ==
    IF ~ParsesOutput(spawned) THEN NoTranscript
    ELSE LET parsed == parseYarnWhyOutput(spawned.stdout.text, spawned.version)
         IN  IF parsed.threw THEN Caught.result ELSE parsed.value

(* What `yarn why` prints for a package: a matching marker and the lines t. *)
WhyOutput(t) ==
    [throws |-> FALSE, status |-> 0,
     stdout |-> Text(<<Marker(VersionA)>> \o t), version |-> VersionA]

WhyFailed == [throws |-> TRUE, status |-> -1, stdout |-> NullStdout, version |-> VersionA]

(* A package of the scan results: its name and what `yarn why` prints for it. *)
Package(name, why) == [name |-> name, why |-> why]

(* The packages with vulnerabilities the scan results are drawn from. *)
PackagePool ==
    << Package("q", WhyOutput(<< ReasonsLine(<< <<PROJECT, "e">> >>) >>)),
       Package("p", WhyOutput(<< ReasonsLine(<< <<PROJECT, "e", "#", "a">> >>) >>)),
       Package("q", WhyOutput(<< ReasonsLine(<< <<"b", "#", "a">>,
                                                <<"e", "#", "a">> >>) >>)),
       Package("p", WhyOutput(<< TreeLine(<< Node(<<"root">>,
                                 << Node(<<"e">>, << Node(<<"a">>, <<>>) >>) >>) >>) >>)),
       Package("q", WhyOutput(<< ReasonsLine(<< <<"Specified", SPACE, "in", SPACE,
                                                  QUOTE, "devDependencies", QUOTE>> >>) >>)),
       Package("p", WhyOutput(<< ReasonsLine(<< <<"b">> >>),
                                 TreeLine(<< Node(<<"root">>,
                                                  << Node(<<"e">>, <<>>) >>) >>) >>)),
       Package("p", WhyFailed) >>

(* The scan result that lists n packages of the pool, from `first` on. *)
ScanResult(first, n) ==
    [j \in 1..n |-> PackagePool[((first + j - 2) % Len(PackagePool)) + 1]]

(* The names package.json and the workspaces list as devDependencies. *)
DevDependencySets == { {}, {<<"e">>} }

-----------------------------------------------------------------------------
(* The state machine *)

Init ==
    /\ pc = "start"
    /\ history = <<>>
    /\ version = <<>>
    /\ threw = FALSE
    /\ status = -1
    /\ stdout = NullStdout
    /\ parserInvoked = FALSE
    /\ escaped = FALSE
    /\ lines = <<>>
    /\ i = 1
    /\ versionBlocks = <<>>
    /\ currentBlock = <<>>
    /\ inVersionBlock = FALSE
    /\ versionLines = <<>>
    /\ k = 1
    /\ chains = <<>>
    /\ uniqueChains = <<>>
    /\ result = <<>>
    /\ mainPc = "main"
    /\ dryRun = FALSE
    /\ report = FALSE
    /\ configExists = FALSE
    /\ effects = {}
    /\ found = 0
    /\ packages = <<>>
    /\ vulnerabilities = <<>>
    /\ aiOutcome = "none"
    /\ aiSuggestion = NoSuggestion
    /\ choice = ""
    /\ devDependencies = {}
    /\ pkgName = ""
    /\ depChain = <<>>
    /\ isDevDependency = FALSE
    /\ config = <<>>
    /\ exitCode = -1

(* getDependencyChain up to the call of parseYarnWhyOutput (or its return
   without one), and parseYarnWhyOutput's split of the output. *)
Spawn ==
    /\ UNCHANGED mainVars
    /\ pc = "start"
    /\ \E spawned \in (IF history = <<>> THEN SpawnInputs ELSE RerunInputs) :
          /\ version' = spawned.version
          /\ threw' = spawned.throws
          /\ status' = spawned.status
          /\ stdout' = spawned.stdout
          /\ IF ParsesOutput(spawned)
             THEN /\ pc' = "segment"
                  /\ parserInvoked' = TRUE
                  /\ lines' = TrimSplit(spawned.stdout.text)
                  /\ UNCHANGED <<escaped, result>>
             ELSE /\ pc' = "done"
                  /\ escaped' = IF spawned.throws THEN Caught.escaped ELSE FALSE
                  /\ result' = IF spawned.throws THEN Caught.result ELSE NoTranscript
                  /\ UNCHANGED <<parserInvoked, lines>>
    /\ UNCHANGED <<history, i, versionBlocks, currentBlock, inVersionBlock,
                   versionLines, k, chains, uniqueChains>>

(* extractVersionLines: one iteration of the loop over the lines. *)
SegmentLine ==
    /\ UNCHANGED mainVars
    /\ pc = "segment"
    /\ i <= Len(lines)
    /\ LET st == SegmentStep([versionBlocks |-> versionBlocks,
                              currentBlock |-> currentBlock,
                              inVersionBlock |-> inVersionBlock],
                             lines[i], i, version)
       IN  /\ versionBlocks' = st.versionBlocks
           /\ currentBlock' = st.currentBlock
           /\ inVersionBlock' = st.inVersionBlock
    /\ i' = i + 1
    /\ UNCHANGED <<pc, history, version, threw, status, stdout, parserInvoked, escaped, lines,
                   versionLines, k, chains, uniqueChains, result>>

(* extractVersionLines: the end of the loop, the last flush and the return. *)
SegmentEnd ==
    /\ UNCHANGED mainVars
    /\ pc = "segment"
    /\ i > Len(lines)
    /\ versionBlocks' = FinalBlocks([versionBlocks |-> versionBlocks,
                                     currentBlock |-> currentBlock,
                                     inVersionBlock |-> inVersionBlock])
    /\ versionLines' = Flatten(versionBlocks')
    /\ pc' = "extract"
    /\ UNCHANGED <<history, version, threw, status, stdout, parserInvoked, escaped, lines, i,
                   currentBlock, inVersionBlock, k, chains, uniqueChains, result>>

(* extractDependencyChains: one iteration of the loop over versionLines.  A
   TypeError leaves parseYarnWhyOutput and is caught by getDependencyChain. *)
ExtractLine ==
    /\ UNCHANGED mainVars
    /\ pc = "extract"
    /\ k <= Len(versionLines)
    /\ LET r == ExtractRecord(versionLines[k].rec)
       IN  /\ chains' = chains \o r.pushed
           /\ IF r.threw
              THEN /\ pc' = "done"
                   /\ escaped' = Caught.escaped
                   /\ result' = Caught.result
              ELSE UNCHANGED <<pc, escaped, result>>
    /\ k' = k + 1
    /\ UNCHANGED <<history, version, threw, status, stdout, parserInvoked, lines, i,
                   versionBlocks, currentBlock, inVersionBlock, versionLines,
                   uniqueChains>>

(* extractDependencyChains: the removal of duplicates and the return. *)
ExtractEnd ==
    /\ UNCHANGED mainVars
    /\ pc = "extract"
    /\ k > Len(versionLines)
    /\ uniqueChains' = RemoveDuplicates(chains, {})
    /\ pc' = "serialize"
    /\ UNCHANGED <<history, version, threw, status, stdout, parserInvoked, escaped, lines, i,
                   versionBlocks, currentBlock, inVersionBlock, versionLines,
                   k, chains, result>>

(* parseYarnWhyOutput: the cap, the join and the return through
   getDependencyChain. *)
Return ==
    /\ UNCHANGED mainVars
    /\ pc = "serialize"
    /\ result' = Serialize(uniqueChains)
    /\ pc' = "done"
    /\ UNCHANGED <<history, version, threw, status, stdout, parserInvoked, escaped, lines, i,
                   versionBlocks, currentBlock, inVersionBlock, versionLines,
                   k, chains, uniqueChains>>

(* The return of getDependencyChain to its caller and the entry of the next
   call on the same instance: the class has no field but the read-only name
   and lockfile, and every other variable is a local of the call. *)
CallAgain ==
    /\ UNCHANGED mainVars
    /\ pc = "done"
    /\ Len(history) + 1 < MaxCalls
    /\ [throws |-> threw, status |-> status, stdout |-> stdout, version |-> version]
           \in RerunInputs
    /\ history' = Append(history, [stdout |-> stdout, version |-> version,
                                   threw |-> threw, status |-> status,
                                   parserInvoked |-> parserInvoked,
                                   escaped |-> escaped, result |-> result])
    /\ pc' = "start"
    /\ version' = <<>>
    /\ threw' = FALSE
    /\ status' = -1
    /\ stdout' = NullStdout
    /\ parserInvoked' = FALSE
    /\ escaped' = FALSE
    /\ lines' = <<>>
    /\ i' = 1
    /\ LET st == LocalsAtEntry([versionBlocks |-> versionBlocks,
                                currentBlock |-> currentBlock,
                                inVersionBlock |-> inVersionBlock])
       IN  /\ versionBlocks' = st.versionBlocks
           /\ currentBlock' = st.currentBlock
           /\ inVersionBlock' = st.inVersionBlock
    /\ versionLines' = <<>>
    /\ k' = 1
    /\ chains' = <<>>
    /\ uniqueChains' = <<>>
    /\ result' = <<>>

Next ==
    \/ Spawn
    \/ CallAgain
    \/ SegmentLine
    \/ SegmentEnd
    \/ ExtractLine
    \/ ExtractEnd
    \/ Return

Spec == Init /\ [][Next]_vars

-----------------------------------------------------------------------------
(* The state machine of index.ts: one run of main *)

(* main: the options and the validation of the environment. *)
MainStart ==
    /\ mainPc = "main"
    /\ \E d \in BOOLEAN, r \in BOOLEAN, env \in {"ok", "noScanner", "noPackageJson"} :
          /\ dryRun' = d
          /\ report' = r
          /\ IF env = "ok"
             THEN mainPc' = "config" /\ UNCHANGED exitCode
             ELSE mainPc' = "exited" /\ exitCode' = 1
    /\ UNCHANGED <<configExists, effects, found, vulnerabilities, aiOutcome,
                   aiSuggestion, choice, devDependencies, packageVars, config>>
    /\ UNCHANGED yarnVars

(* main: the check of osv-scanner.toml; `answer` is what the user answers
   when a confirmation is asked. *)
CheckConfig ==
    /\ mainPc = "config"
    /\ \E exists \in BOOLEAN, answer \in BOOLEAN :
          /\ configExists' = exists
          /\ IF exists
             THEN /\ effects' = IF ~dryRun /\ answer
                                 THEN effects \cup {RenameConfig} ELSE effects
                  /\ mainPc' = "detect"
                  /\ UNCHANGED exitCode
             ELSE IF ~dryRun /\ ~answer
             THEN mainPc' = "exited" /\ exitCode' = 0 /\ UNCHANGED effects
             ELSE mainPc' = "detect" /\ UNCHANGED <<exitCode, effects>>
    /\ UNCHANGED <<dryRun, report, found, vulnerabilities, aiOutcome,
                   aiSuggestion, choice, devDependencies, packageVars, config>>
    /\ UNCHANGED yarnVars

(* main: the detection of the package manager and of its version. *)
DetectPackageManager ==
    /\ mainPc = "detect"
    /\ \E detected \in {"ok", "noManager", "noVersion"} :
          IF detected = "ok"
          THEN mainPc' = "update" /\ UNCHANGED exitCode
          ELSE mainPc' = "exited" /\ exitCode' = 1
    /\ UNCHANGED <<dryRun, report, configExists, effects, found, vulnerabilities,
                   aiOutcome, aiSuggestion, choice, devDependencies, packageVars,
                   config>>
    /\ UNCHANGED yarnVars

(* main: the update of the packages, skipped in dry-run. *)
UpdateStep ==
    /\ mainPc = "update"
    /\ effects' = IF ~dryRun THEN effects \cup {UpdatePackages} ELSE effects
    /\ mainPc' = "scan"
    /\ UNCHANGED <<dryRun, report, configExists, found, vulnerabilities,
                   aiOutcome, aiSuggestion, choice, devDependencies, packageVars,
                   config, exitCode>>
    /\ UNCHANGED yarnVars

(* main: runOsvScan and the entry of parseVulnerabilities, which reads the
   dependencies of package.json; n is the number of packages with
   vulnerabilities, -1 when there is no scan result. *)
Scan ==
    /\ mainPc = "scan"
    /\ \E n \in -1..MaxVulns, first \in 1..Len(PackagePool),
          devDeps \in DevDependencySets :
          IF n = -1
          THEN /\ mainPc' = "exited" /\ exitCode' = 0
               /\ UNCHANGED <<found, packages, devDependencies>>
          ELSE /\ found' = n
               /\ packages' = ScanResult(first, n)
               /\ devDependencies' = devDeps
               /\ mainPc' = IF n = 0 THEN "generate" ELSE "suggest"
               /\ UNCHANGED exitCode
    /\ UNCHANGED <<dryRun, report, configExists, effects, vulnerabilities,
                   aiOutcome, aiSuggestion, choice, pkgName, depChain,
                   isDevDependency, config>>
    /\ UNCHANGED yarnVars

(* parseVulnerabilities: the next package with vulnerabilities and its
   dependency chain; suggestReason: the detection of a development
   dependency. *)
Suggest ==
    /\ mainPc = "suggest"
    /\ LET pkg == packages[Len(vulnerabilities) + 1]
       IN  /\ pkgName' = pkg.name
           /\ depChain' = getDependencyChain(pkg.why)
           /\ isDevDependency' = DetectDevDependency(getDependencyChain(pkg.why),
                                                      devDependencies)
    /\ mainPc' = "ask"
    /\ UNCHANGED <<dryRun, report, configExists, effects, found, packages,
                   vulnerabilities,
                   aiOutcome, aiSuggestion, choice, devDependencies, config,
                   exitCode>>
    /\ UNCHANGED yarnVars

(* suggestReason: the call of askAiForSuggestion.  An exception that left it
   would leave main and reach main().catch. *)
AskAi ==
    /\ mainPc = "ask"
    /\ \E outcome \in AiOutcomes :
          LET asked == askAiForSuggestion(outcome)
          IN  /\ aiOutcome' = outcome
              /\ aiSuggestion' = asked.value
              /\ effects' = effects \cup asked.effects
              /\ IF asked.threw
                 THEN mainPc' = "exited" /\ exitCode' = 1
                 ELSE mainPc' = "prompt" /\ UNCHANGED exitCode
    /\ UNCHANGED <<dryRun, report, configExists, found, vulnerabilities, choice,
                   devDependencies, packageVars, config>>
    /\ UNCHANGED yarnVars

(* suggestReason: one turn of the loop that reads the choice, and the push
   of parseVulnerabilities when the choice is one of 1 to 4. *)
Prompt ==
    /\ mainPc = "prompt"
    /\ \E typed \in Choices :
          /\ choice' = typed
          /\ IF IsChoice(typed)
             THEN /\ vulnerabilities' =
                         Append(vulnerabilities,
                                Vulnerability(pkgName, depChain, ReasonOf(typed)))
                  /\ mainPc' = IF Len(vulnerabilities) + 1 < found
                               THEN "suggest" ELSE "generate"
             ELSE UNCHANGED <<vulnerabilities, mainPc>>
    /\ UNCHANGED <<dryRun, report, configExists, effects, found, aiOutcome,
                   aiSuggestion, devDependencies, packageVars, config, exitCode>>
    /\ UNCHANGED yarnVars

(* main: the exit when nothing is to be treated, else the configuration
   file, its verification and the report. *)
Generate ==
    /\ mainPc = "generate"
    /\ effects' = IF Len(vulnerabilities) = 0 THEN effects
                  ELSE effects \cup ConfigEffects(dryRun, report)
    /\ config' = IF Len(vulnerabilities) = 0 THEN config
                 ELSE generateTomlConfig(vulnerabilities)
    /\ mainPc' = "exited"
    /\ exitCode' = 0
    /\ UNCHANGED <<dryRun, report, configExists, found, vulnerabilities,
                   aiOutcome, aiSuggestion, choice, devDependencies, packageVars>>
    /\ UNCHANGED yarnVars

NextMain ==
    \/ MainStart
    \/ CheckConfig
    \/ DetectPackageManager
    \/ UpdateStep
    \/ Scan
    \/ Suggest
    \/ AskAi
    \/ Prompt
    \/ Generate

SpecMain == Init /\ [][NextMain]_vars

-----------------------------------------------------------------------------
(* Vocabulary of the properties: the transcript by position, read from the
   text of the lines and not from the segmenter's variables. *)

(* Line n is a record the parser accepts. *)
ParsedAt(n) == ~LineThrows(lines[n])

(* Line n is an Info record whose message contains "=> Found". *)
MarkerAt(n) ==
    /\ lines[n].json = "object" /\ lines[n].type = "info"
    /\ lines[n].shape = "string"
    /\ \E p \in 1..Len(lines[n].str) : lines[n].str[p] = FOUND

(* ... and "@" followed by the target version. *)
MatchingAt(n) ==
    /\ MarkerAt(n)
    /\ \E p \in 1..Len(lines[n].str) :
           /\ lines[n].str[p] = AT
           /\ p + Len(version) <= Len(lines[n].str)
           /\ \A q \in 1..Len(version) : lines[n].str[p + q] = version[q]

(* Line n lies before the first matching marker, or at or after a
   non-matching marker and before the next matching one. *)
OutsideAt(n) ==
    LET markers == {m \in 1..n : MarkerAt(m)}
    IN  \/ markers = {}
        \/ ~MatchingAt(CHOOSE m \in markers : \A m2 \in markers : m2 <= m)

InsideAt(n) == ~OutsideAt(n)

Elements(list) == {list[n] : n \in 1..Len(list)}

(* extractVersionLines has returned. *)
Segmented == pc \in {"extract", "serialize"} \/ (pc = "done" /\ parserInvoked)

(* extractDependencyChains has returned. *)
Extracted ==
    pc = "serialize" \/ (pc = "done" /\ parserInvoked /\ result # NoTranscript)

(* The chains a list of chains serializes to have been returned. *)
ReturnedChains == pc = "done" /\ parserInvoked /\ result \notin {NoTranscript, ParseFailed}

-----------------------------------------------------------------------------
(* C1: version isolation.  A record that lies before the first matching
   "=> Found ...@<version>" marker, or after a non-matching marker and before
   the next matching one, is never in the stream extractVersionLines returns,
   and every chain of the returned string is a chain pushed by a record that
   lies inside a matching block. *)
C1_VersionIsolation ==
    /\ \A j \in 1..Len(versionLines) : InsideAt(versionLines[j].idx)
    /\ ReturnedChains =>
          \A c \in Elements(Slice(uniqueChains, 5)) :
              \E n \in 1..Len(lines) :
                  /\ InsideAt(n)
                  /\ ParsedAt(n)
                  /\ c \in Elements(ExtractRecord(lines[n]).pushed)

(* A returned chain list next to a record, outside every matching block and
   behind a non-matching marker, that pushes a chain of its own. *)
C1_Witness ==
    /\ ReturnedChains
    /\ \E n \in 1..Len(lines) :
          /\ OutsideAt(n)
          /\ \E m \in 1..(n - 1) : MarkerAt(m) /\ ~MatchingAt(m)
          /\ ParsedAt(n)
          /\ ExtractRecord(lines[n]).pushed # <<>>
          /\ \A c \in Elements(ExtractRecord(lines[n]).pushed) :
                 c \notin Elements(uniqueChains)

(* C2: completeness of retention.  The stream extractVersionLines returns is
   exactly the parsed records that lie inside a matching block, each once and
   in transcript order, the block still open at the end of the stream
   included. *)
C2_RetentionComplete ==
    Segmented =>
        /\ \A j \in 1..Len(versionLines) :
               /\ versionLines[j].idx \in 1..Len(lines)
               /\ versionLines[j].rec = lines[versionLines[j].idx]
        /\ \A j \in 1..(Len(versionLines) - 1) :
               versionLines[j].idx < versionLines[j + 1].idx
        /\ {versionLines[j].idx : j \in 1..Len(versionLines)}
               = {n \in 1..Len(lines) : ParsedAt(n) /\ InsideAt(n)}

(* Two disjoint blocks of the target version around a block of another one,
   the last block open at the end of the stream. *)
C2_Witness ==
    /\ Segmented
    /\ Len(versionBlocks) >= 2
    /\ InsideAt(Len(lines))
    /\ \E n \in 1..Len(lines) : MarkerAt(n) /\ ~MatchingAt(n)
    /\ \E j \in 1..Len(versionLines) : ~MarkerAt(versionLines[j].idx)

(* C3: the cap.  The string parseYarnWhyOutput returns for a non-empty chain
   list is the join of at most 5 chains, the first 5 of the deduplicated list
   in first-seen order; a matching marker followed by one reasons list of 7
   distinct items yields exactly the first 5 of them. *)
C3_Cap ==
    /\ ReturnedChains =>
          \E n \in 0..5 :
              /\ n <= Len(uniqueChains)
              /\ n = 5 \/ n = Len(uniqueChains)
              /\ result = Join([j \in 1..n |-> uniqueChains[j]], PIPE)
    /\ (pc = "done" /\ Len(lines) = 2 /\ MatchingAt(1)
          /\ lines[2] = ReasonsLine(<< <<"c1">>, <<"c2">>, <<"c3">>, <<"c4">>,
                                       <<"c5">>, <<"c6">>, <<"c7">> >>))
       => result = <<"c1", PIPE, "c2", PIPE, "c3", PIPE, "c4", PIPE, "c5">>

(* More than 5 distinct chains were extracted and 5 of them returned. *)
C3_Witness ==
    /\ ReturnedChains
    /\ Len(uniqueChains) >= 7
    /\ Len(result) = 9

(* C4: deduplication.  The list extractDependencyChains returns holds no two
   equal strings, holds exactly the candidate chains, and orders them by
   their first occurrence among the candidates. *)
FirstOccurrence(list, c) ==
    CHOOSE n \in 1..Len(list) : list[n] = c /\ \A m \in 1..(n - 1) : list[m] # c

C4_Deduplicated ==
    Extracted =>
        /\ \A a, b \in 1..Len(uniqueChains) :
               a # b => uniqueChains[a] # uniqueChains[b]
        /\ Elements(uniqueChains) = Elements(chains)
        /\ \A a, b \in 1..Len(uniqueChains) :
               a < b => FirstOccurrence(chains, uniqueChains[a])
                            < FirstOccurrence(chains, uniqueChains[b])

(* A candidate list with a chain repeated after another chain, and a kept
   chain that was first seen behind a duplicate. *)
C4_Witness ==
    /\ Extracted
    /\ Len(uniqueChains) >= 2
    /\ Len(chains) > Len(uniqueChains)
    /\ \E a, b \in 1..Len(chains) :
           a + 1 < b /\ chains[a] = chains[b] /\ chains[a + 1] # chains[a]
    /\ \E a \in 1..Len(uniqueChains) :
           FirstOccurrence(chains, uniqueChains[a]) > a

(* C5 (the claim as stated): no returned chain contains "_project_#". *)
C5_NoProjectToken ==
    Extracted => \A c \in Elements(uniqueChains) : ~Includes(c, <<PROJECT>>)

(* C6 (the claim as stated): no returned chain contains "workspace
   aggregator" or "workspace-aggregator". *)
C6_NoAggregator ==
    Extracted =>
        \A c \in Elements(uniqueChains) :
            ~Includes(c, <<WS_SPACE>>) /\ ~Includes(c, <<WS_DASH>>)

(* C7 (the claim as stated): a non-empty stdout from which no chain is
   extracted gives "Unable to parse yarn output". *)
C7_ParseFailedWhenNoChain ==
    (pc = "done" /\ ~threw /\ Truthy(stdout) /\ chains = <<>>)
        => result = ParseFailed

(* C8: a null or empty stdout, or a spawnSync that throws, gives "Unable to
   determine dependency chain"; no exception leaves getDependencyChain and
   parseYarnWhyOutput is never called. *)
C8_NoTranscript ==
    (pc # "start" /\ (threw \/ stdout.isNull \/ stdout.text \in {<<>>, <<BlankLine>>}))
        => /\ pc = "done"
           /\ result = NoTranscript
           /\ ~escaped
           /\ ~parserInvoked

(* spawnSync returned the empty string. *)
C8_Witness ==
    /\ pc = "done"
    /\ ~threw /\ ~stdout.isNull /\ stdout.text = <<>>
    /\ result = NoTranscript

(* C9 (the claim as stated): a status other than 0 gives "Unable to
   determine dependency chain", whatever stdout holds. *)
C9_NonZeroStatusIsNoTranscript ==
    (pc = "done" /\ ~threw /\ status # 0) => result = NoTranscript

(* C10 (the claim as stated): a retained record of an unexpected shape is
   skipped: the result for a non-empty stdout is never the no-transcript
   sentinel, and the chains of the other retained records are returned. *)
RECURSIVE ChainsSkippingMalformed(_)
ChainsSkippingMalformed(records) ==
    IF Len(records) = 0 THEN <<>>
    ELSE LET r == ExtractRecord(Head(records).rec)
         IN  (IF r.threw THEN <<>> ELSE r.pushed)
                 \o ChainsSkippingMalformed(Tail(records))

C10_MalformedSkipped ==
    (pc = "done" /\ ~threw /\ Truthy(stdout))
        => /\ result # NoTranscript
           /\ Elements(ChainsSkippingMalformed(versionLines)) \subseteq Elements(chains)

(* C11: a line that is not valid JSON is silently dropped.  Processing it
   changes neither inVersionBlock nor currentBlock nor versionBlocks and
   raises nothing; it is never part of the stream extractVersionLines
   returns; the records behind it in the same block are still retained. *)
NotJsonAt(n) == lines[n].json \in {"invalid", "blank"}

C11_InvalidLineDropped ==
    /\ [][(pc = "segment" /\ i <= Len(lines) /\ NotJsonAt(i))
            => /\ inVersionBlock' = inVersionBlock
               /\ currentBlock' = currentBlock
               /\ versionBlocks' = versionBlocks
               /\ pc' = "segment" /\ i' = i + 1
               /\ escaped' = FALSE]_vars
    /\ [](\A j \in 1..Len(versionLines) : ~NotJsonAt(versionLines[j].idx))
    /\ [](Segmented =>
            \A n \in 1..Len(lines) :
                (\E m \in 1..(n - 1) : NotJsonAt(m) /\ InsideAt(m))
                    /\ InsideAt(n) /\ lines[n].json = "object" /\ lines[n].type = "list"
                => \E j \in 1..Len(versionLines) : versionLines[j].idx = n)

(* An invalid line inside an open block, with a record retained behind it in
   the same block. *)
C11_Witness ==
    /\ Segmented
    /\ \E m \in 1..Len(lines) :
          /\ lines[m].json = "invalid" /\ InsideAt(m)
          /\ \E j \in 1..Len(versionLines) :
                /\ versionLines[j].idx > m
                /\ versionLines[j].rec.type = "list"
                /\ \A n \in m..versionLines[j].idx : ~MarkerAt(n)

-----------------------------------------------------------------------------
(* The calls made so far on the instance that have returned, in order. *)
Calls ==
    IF pc = "done"
    THEN Append(history, [stdout |-> stdout, version |-> version,
                          threw |-> threw, status |-> status,
                          parserInvoked |-> parserInvoked,
                          escaped |-> escaped, result |-> result])
    ELSE history

(* C12: two calls on one instance that hand the same transcript and the same
   target version to parseYarnWhyOutput return the same string, whatever
   calls were made on the instance before or between them; and a call finds
   nothing of the calls before it in the segmenter's state. *)
C12_Deterministic ==
    /\ \A a \in 1..Len(Calls) : \A b \in 1..Len(Calls) :
          /\ Calls[a].parserInvoked /\ Calls[b].parserInvoked
          /\ Calls[a].stdout = Calls[b].stdout
          /\ Calls[a].version = Calls[b].version
          => /\ Calls[a].result = Calls[b].result
             /\ Calls[a].escaped = Calls[b].escaped
    /\ (pc = "start" /\ history # <<>>)
          => /\ versionBlocks = <<>>
             /\ currentBlock = <<>>
             /\ inVersionBlock = FALSE

(* A third call repeats the first after a call for another target version,
   and the three calls return chains. *)
C12_Witness ==
    /\ pc = "done"
    /\ Len(history) = 2
    /\ parserInvoked
    /\ history[1].stdout = stdout /\ history[1].version = version
    /\ history[2].parserInvoked
    /\ history[2].version # version
    /\ history[2].result \notin {NoTranscript, ParseFailed}
    /\ result \notin {NoTranscript, ParseFailed}
    /\ result = history[1].result

-----------------------------------------------------------------------------
(* The segmenter is about to process line i. *)
Processing == pc = "segment" /\ i <= Len(lines)

(* The record JSON.parse returns for line n, as the accumulator holds it. *)
RecordAt(n) == [idx |-> n, rec |-> lines[n]]

Last(list) == list[Len(list)]

(* C18: on a marker of the target version the accumulator is flushed as a
   block iff it is not empty, the state becomes Inside, and the accumulator
   becomes the marker alone: the marker is the first record of the new
   block. *)
C18_MatchingMarker ==
    [][(Processing /\ MatchingAt(i))
          => /\ versionBlocks' = IF currentBlock # <<>>
                                 THEN Append(versionBlocks, currentBlock)
                                 ELSE versionBlocks
             /\ inVersionBlock' = TRUE
             /\ currentBlock' = <<RecordAt(i)>>]_vars

(* A matching marker has just been processed while a block was open: the
   open block, which ends with the line before the marker, was flushed and
   the new accumulator is the marker. *)
C18_Witness ==
    /\ pc = "segment" /\ i > 2
    /\ MatchingAt(i - 1)
    /\ InsideAt(i - 2)
    /\ inVersionBlock
    /\ currentBlock = <<RecordAt(i - 1)>>
    /\ versionBlocks # <<>>
    /\ Last(Last(versionBlocks)) = RecordAt(i - 2)

(* C19: on a marker of another version the accumulator is flushed as a block
   iff the state was Inside, the accumulator is emptied, the state becomes
   Outside, the marker is not retained, and the blocks flushed before are
   left as they were. *)
C19_OtherMarker ==
    [][(Processing /\ MarkerAt(i) /\ ~MatchingAt(i))
          => /\ versionBlocks' = IF inVersionBlock
                                 THEN Append(versionBlocks, currentBlock)
                                 ELSE versionBlocks
             /\ SubSeq(versionBlocks', 1, Len(versionBlocks)) = versionBlocks
             /\ currentBlock' = <<>>
             /\ inVersionBlock' = FALSE
             /\ \A b \in 1..Len(versionBlocks') :
                   RecordAt(i) \notin Elements(versionBlocks'[b])]_vars

(* A marker of another version has just been processed inside a block: the
   block was flushed up to the line before the marker, and the state is
   Outside with an empty accumulator. *)
C19_Witness ==
    /\ pc = "segment" /\ i > 2
    /\ MarkerAt(i - 1) /\ ~MatchingAt(i - 1)
    /\ InsideAt(i - 2)
    /\ ~inVersionBlock
    /\ currentBlock = <<>>
    /\ versionBlocks # <<>>
    /\ Last(Last(versionBlocks)) = RecordAt(i - 2)

(* Line n is a record (an object; an Info record has a string message or
   none) that is not an Info record containing "=> Found". *)
NonTriggerAt(n) ==
    /\ lines[n].json = "object"
    /\ lines[n].type = "info" => lines[n].shape \in {"string", "absent"}
    /\ ~MarkerAt(n)

(* C20: a record that is not an Info record containing "=> Found" leaves the
   state and the flushed blocks unchanged; it is appended to the accumulator
   when the state is Inside, and the accumulator is unchanged when
   Outside. *)
C20_NonTrigger ==
    [][(Processing /\ NonTriggerAt(i))
          => /\ inVersionBlock' = inVersionBlock
             /\ versionBlocks' = versionBlocks
             /\ currentBlock' = IF inVersionBlock
                                THEN Append(currentBlock, RecordAt(i))
                                ELSE currentBlock]_vars

(* Such a record has just been appended inside a block, after another one
   was passed over outside of any block. *)
C20_Witness ==
    /\ pc = "segment" /\ i > 1
    /\ NonTriggerAt(i - 1)
    /\ inVersionBlock
    /\ Len(currentBlock) >= 2
    /\ Last(currentBlock) = RecordAt(i - 1)
    /\ \E m \in 1..(i - 2) : NonTriggerAt(m) /\ OutsideAt(m)

-----------------------------------------------------------------------------
(* The extractor is about to process a List record of sub-kind "reasons"
   whose items are an array. *)
OnReasons ==
    /\ pc = "extract" /\ k <= Len(versionLines)
    /\ versionLines[k].rec.type = "list"
    /\ versionLines[k].rec.shape = "object"
    /\ versionLines[k].rec.sub = "reasons"
    /\ versionLines[k].rec.itemsShape = "array"

(* The candidates the statement of C13 gives for a list of items: one for
   each string item, without one leading and one trailing quote and without
   the "_project_#" token, unless it names the workspace aggregator. *)
RECURSIVE StatedCandidates(_)
StatedCandidates(items) ==
    IF Len(items) = 0 THEN <<>>
    ELSE LET chain == ReplaceFirst(
                          StripTrailingQuote(StripLeadingQuote(Head(items).s)),
                          PROJECT)
         IN  (IF Head(items).isString
                    /\ ~Includes(chain, <<WS_SPACE>>) /\ ~Includes(chain, <<WS_DASH>>)
              THEN <<chain>> ELSE <<>>) \o StatedCandidates(Tail(items))

(* C13 (as stated; the code violates it): each string item of a retained
   "reasons" record yields its candidate, kept unless it is a
   workspace-aggregator entry, and the extraction goes on; the transcript of
   one matching marker and the reasons "_project_#a", "b#a" returns
   "a | b#a". *)
C13_ReasonsCandidates ==
    /\ [][OnReasons
            => /\ chains' = chains \o StatedCandidates(versionLines[k].rec.items)
               /\ pc' = "extract"]_vars
    /\ []((pc = "done" /\ version = VersionA
            /\ stdout = Text(<<Marker(VersionA),
                               ReasonsLine(<< <<PROJECT, "a">>, <<"b", "#", "a">> >>)>>))
           => result = <<"a", PIPE, "b", "#", "a">>)

-----------------------------------------------------------------------------
(* The separator " -> " of the statement: U+2192 between two spaces. *)
StatedArrow == " \\u2192 "

(* The names on the path from a node down through the first children to a
   node without children. *)
RECURSIVE FirstChildPath(_)
FirstChildPath(tree) ==
    IF Len(tree.children) = 0 THEN <<tree.name>>
    ELSE <<tree.name>> \o FirstChildPath(tree.children[1])

(* Every node on that path is an object with a name. *)
RECURSIVE WellFormedPath(_)
WellFormedPath(tree) ==
    /\ tree.obj
    /\ Len(tree.name) > 0
    /\ Len(tree.children) > 0 => WellFormedPath(tree.children[1])

(* The extractor is about to process a Tree record whose roots are an array
   of nodes with well-formed first-child paths. *)
OnTree ==
    /\ pc = "extract" /\ k <= Len(versionLines)
    /\ versionLines[k].rec.type = "tree"
    /\ versionLines[k].rec.shape = "object"
    /\ versionLines[k].rec.treesShape = "array"
    /\ \A n \in 1..Len(versionLines[k].rec.trees) :
           WellFormedPath(versionLines[k].rec.trees[n])

(* C14 (as stated; the code violates it): each root of a retained Tree
   record yields the names on its first-child path, joined with " -> "
   (U+2192); a root without children yields its own name. *)
C14_TreeWalk ==
    [][OnTree
         => chains' = chains \o
                [n \in 1..Len(versionLines[k].rec.trees) |->
                     Join(FirstChildPath(versionLines[k].rec.trees[n]), StatedArrow)]]_vars

-----------------------------------------------------------------------------
(* C15 (as stated; the code violates it): when chains are returned, the
   parts of the returned string between the separators " | " are at most 5
   and are the capped list of chains. *)
C15_SplitInvertsJoin ==
    ReturnedChains
        => /\ Len(Split(result, PIPE)) <= MaxChains
           /\ Split(result, PIPE) = Slice(uniqueChains, MaxChains)

-----------------------------------------------------------------------------
(* C16 (as stated; the code violates it): in a run with --dry-run nothing is
   created, renamed or written and the packages are not updated, with or
   without --report and whatever the Azure AI service does. *)
C16_DryRunNoEffects == dryRun => effects = {}

-----------------------------------------------------------------------------
(* The calls of the service that give no suggestion. *)
AiFailures == {"missingEnv", "callFails", "emptyAnswer", "noJson", "badJson"}

StatedReason ==
    [c \in {"1", "2", "3", "4"} |->
        CASE c = "1" -> "No fix available"
          [] c = "2" -> "Dev dependency only - not in production"
          [] c = "3" -> "Not accessible in production"
          [] c = "4" -> "Requires manual review"]

(* C17: when the environment variables are missing, the call fails or the
   answer holds no JSON that parses, askAiForSuggestion returns null and no
   error leaves it: the run goes on to the prompt; and the reason recorded
   for the vulnerability is the one of the choice the user types. *)
C17_WorksWithoutAi ==
    /\ [][(mainPc = "ask" /\ aiOutcome' \in AiFailures)
            => /\ aiSuggestion' = NoSuggestion
               /\ mainPc' = "prompt"
               /\ exitCode' = -1]_vars
    /\ [][(mainPc = "prompt" /\ aiOutcome \in AiFailures
               /\ choice' \in DOMAIN StatedReason)
            => /\ Len(vulnerabilities') = Len(vulnerabilities) + 1
               /\ vulnerabilities'[Len(vulnerabilities')].reason = StatedReason[choice']
               /\ mainPc' # "prompt"]_vars

(* Without the environment variables the user has chosen 3 and the reason of
   the vulnerability is "Not accessible in production". *)
C17_Witness ==
    /\ mainPc = "generate"
    /\ aiOutcome = "missingEnv"
    /\ aiSuggestion = NoSuggestion
    /\ choice = "3"
    /\ Len(vulnerabilities) = 1
    /\ vulnerabilities[1].reason = "Not accessible in production"

-----------------------------------------------------------------------------
(* C21: between two lines of extractVersionLines, Outside implies an empty
   accumulator, Inside implies an accumulator that is not empty and starts
   with a marker of the target version; and every flushed block is not empty
   and starts with a marker of the target version. *)
C21_SegmenterInvariant ==
    /\ ~inVersionBlock => currentBlock = <<>>
    /\ inVersionBlock => /\ currentBlock # <<>>
                         /\ currentBlock[1] = RecordAt(currentBlock[1].idx)
                         /\ MatchingAt(currentBlock[1].idx)
    /\ \A b \in 1..Len(versionBlocks) :
          /\ versionBlocks[b] # <<>>
          /\ versionBlocks[b][1] = RecordAt(versionBlocks[b][1].idx)
          /\ MatchingAt(versionBlocks[b][1].idx)

(* Inside a second block of the target version, after a block was flushed
   and a marker of another version was passed. *)
C21_Witness ==
    /\ pc = "segment"
    /\ inVersionBlock
    /\ Len(currentBlock) >= 2
    /\ Len(versionBlocks) >= 1
    /\ \E m \in 1..(i - 1) : MarkerAt(m) /\ ~MatchingAt(m)

-----------------------------------------------------------------------------
(* Line n is the marker that announces version w. *)
AnnouncesAt(n, w) == lines[n] = Marker(w)

(* v is the beginning of w and is shorter. *)
IsProperPrefix(v, w) == Len(v) < Len(w) /\ SubSeq(w, 1, Len(v)) = v

(* v is the end of w and is shorter. *)
IsProperSuffix(v, w) == Len(v) < Len(w) /\ SubSeq(w, Len(w) - Len(v) + 1, Len(w)) = v

AnnouncedVersions == {VersionA, VersionB, VersionLong, VersionSuffix}

(* C22 (as stated): a marker that announces a version of which the target
   version is the end ("0.6" for "7.0.6") is taken for a matching marker and
   opens a block. *)
C22_SuffixOverMatch ==
    [][\A w \in AnnouncedVersions :
          (Processing /\ IsProperSuffix(version, w) /\ AnnouncesAt(i, w))
              => inVersionBlock' /\ currentBlock' = <<RecordAt(i)>>]_vars

(* C22 (amended): a marker opens a block iff its message contains "@" and
   the target version as a substring; a marker that announces a version of
   which the target version is the beginning ("7.0" for "7.0.6") opens a
   block, and one of which it is only the end does not. *)
C22_PrefixOverMatch ==
    /\ [][(Processing /\ MarkerAt(i))
            => (inVersionBlock' <=> MatchingAt(i))]_vars
    /\ [][\A w \in AnnouncedVersions :
            (Processing /\ IsProperPrefix(version, w) /\ AnnouncesAt(i, w))
                => inVersionBlock' /\ currentBlock' = <<RecordAt(i)>>]_vars
    /\ [][\A w \in AnnouncedVersions :
            (Processing /\ IsProperSuffix(version, w) /\ AnnouncesAt(i, w))
                => ~inVersionBlock' /\ currentBlock' = <<>>]_vars

(* The marker of 7.0.6 has just opened a block for the target version 7.0. *)
C22_Witness ==
    /\ pc = "segment" /\ i > 1
    /\ version = VersionA
    /\ AnnouncesAt(i - 1, VersionLong)
    /\ inVersionBlock
    /\ currentBlock = <<RecordAt(i - 1)>>

-----------------------------------------------------------------------------
(* The chain of root n of the retained Tree record j, as the walk builds
   it: the names as they are, with the separator of the code. *)
WalkOf(j, n) == Join(FirstChildPath(versionLines[j].rec.trees[n]), ARROW)

(* The retained record j is a Tree record with well-formed paths. *)
TreeAt(j) ==
    /\ versionLines[j].rec.type = "tree"
    /\ versionLines[j].rec.shape = "object"
    /\ versionLines[j].rec.treesShape = "array"
    /\ \A n \in 1..Len(versionLines[j].rec.trees) :
           WellFormedPath(versionLines[j].rec.trees[n])

(* C23: the chain of a tree is pushed as the walk built it, with its
   "_project_#" tokens and even when it names the workspace aggregator; it
   is in the list after the removal of duplicates, and in the returned
   string when it is among the first MaxChains. *)
C23_TreeChainsAsIs ==
    /\ [][OnTree
            => chains' = chains \o [n \in 1..Len(versionLines[k].rec.trees) |->
                                       WalkOf(k, n)]]_vars
    /\ [](pc = "serialize"
            => \A j \in 1..Len(versionLines) :
                   TreeAt(j) => \A n \in 1..Len(versionLines[j].rec.trees) :
                                   WalkOf(j, n) \in Elements(uniqueChains))
    /\ []((ReturnedChains /\ Len(uniqueChains) <= MaxChains)
            => \A j \in 1..Len(versionLines) :
                   TreeAt(j) => \A n \in 1..Len(versionLines[j].rec.trees) :
                                   Includes(result, WalkOf(j, n)))

(* The chain of a tree is returned with "_project_#" and
   "workspace-aggregator" in it. *)
C23_Witness ==
    /\ ReturnedChains
    /\ \E j \in 1..Len(versionLines) :
          /\ TreeAt(j)
          /\ \E n \in 1..Len(versionLines[j].rec.trees) :
                /\ Includes(WalkOf(j, n), <<PROJECT>>)
                /\ Includes(WalkOf(j, n), <<WS_DASH>>)
                /\ Includes(result, WalkOf(j, n))

-----------------------------------------------------------------------------
(* The extractor is about to process an Info record with a message. *)
OnInfo ==
    /\ pc = "extract" /\ k <= Len(versionLines)
    /\ versionLines[k].rec.type = "info"
    /\ versionLines[k].rec.shape = "string"

(* msg has, from p to q, a quote, a run of one or more symbols that are no
   quote, a quote, and then " depends on it". *)
PatternAt(msg, p, q) ==
    /\ 1 <= p /\ p + 1 < q /\ q < Len(msg)
    /\ msg[p] = QUOTE /\ msg[q] = QUOTE
    /\ \A r \in (p + 1)..(q - 1) : msg[r] # QUOTE
    /\ msg[q + 1] = DEPENDS

HasPattern(msg) == \E p, q \in 1..Len(msg) : PatternAt(msg, p, q)

(* The X of the first occurrence of the pattern. *)
FirstX(msg) ==
    LET pq == CHOOSE pq \in (1..Len(msg)) \X (1..Len(msg)) :
                  /\ PatternAt(msg, pq[1], pq[2])
                  /\ \A p, q \in 1..Len(msg) : PatternAt(msg, p, q) => pq[1] <= p
    IN  SubSeq(msg, pq[1] + 1, pq[2] - 1)

NamesAggregator(chain) ==
    \E p \in 1..Len(chain) : chain[p] \in {WS_SPACE, WS_DASH}

(* C24 (as stated): the first X of the pattern, without the "_project_#"
   token, is pushed unless it names the workspace aggregator; a message
   without the pattern pushes nothing. *)
C24_InfoCandidates ==
    [][OnInfo
         => LET msg == versionLines[k].rec.str
            IN  IF HasPattern(msg)
                THEN LET chain == ReplaceFirst(FirstX(msg), PROJECT)
                     IN  chains' = chains \o (IF NamesAggregator(chain)
                                               THEN <<>> ELSE <<chain>>)
                ELSE chains' = chains]_vars

(* C24 (amended): ... is pushed unless it is empty or names the workspace
   aggregator. *)
C24_InfoCandidatesNonEmpty ==
    [][OnInfo
         => LET msg == versionLines[k].rec.str
            IN  IF HasPattern(msg)
                THEN LET chain == ReplaceFirst(FirstX(msg), PROJECT)
                     IN  chains' = chains \o (IF chain = <<>> \/ NamesAggregator(chain)
                                               THEN <<>> ELSE <<chain>>)
                ELSE chains' = chains]_vars

(* A message with the pattern around "_project_#b#g" has just pushed
   "b#g". *)
C24_Witness ==
    /\ pc = "extract" /\ k > 1
    /\ versionLines[k - 1].rec.type = "info"
    /\ versionLines[k - 1].rec.shape = "string"
    /\ HasPattern(versionLines[k - 1].rec.str)
    /\ Includes(FirstX(versionLines[k - 1].rec.str), <<PROJECT>>)
    /\ chains # <<>>
    /\ Last(chains) = ReplaceFirst(FirstX(versionLines[k - 1].rec.str), PROJECT)

-----------------------------------------------------------------------------
(* msg has "exists because " followed by the pattern at p. *)
ExistsPatternAt(msg, p) ==
    /\ p > 1 /\ msg[p - 1] = EXISTS_BECAUSE
    /\ \E q \in 1..Len(msg) : PatternAt(msg, p, q)

(* The chains the info branch would push without its second pattern. *)
WithoutExistsBranch(msg) ==
    LET dm == dependsMatch(msg)
    IN  IF ~dm.isNull /\ Len(dm.s) > 0
        THEN (IF Kept(CleanCapture(dm.s)) THEN <<CleanCapture(dm.s)>> ELSE <<>>)
        ELSE <<>>

MaxMessageLen == 5

(* Every message of up to MaxMessageLen symbols. *)
Messages == SeqsUpTo({QUOTE, DEPENDS, EXISTS_BECAUSE, PROJECT, "x"}, MaxMessageLen)

(* C25: whenever a message matches the pattern behind "exists because", the
   first pattern matches it with a capture that is not empty, so the branch
   of existsMatch is never taken: the info branch pushes what it would push
   without it. *)
C25_ExistsBranchDead ==
    /\ [](OnInfo
            => LET msg == versionLines[k].rec.str
               IN  /\ (\E p \in 1..Len(msg) : ExistsPatternAt(msg, p))
                        => /\ ~existsMatch(msg).isNull
                           /\ ~dependsMatch(msg).isNull
                           /\ Len(dependsMatch(msg).s) > 0
                   /\ ~existsMatch(msg).isNull => ~dependsMatch(msg).isNull)
    /\ []((pc = "start" /\ history = <<>>)
            => \A msg \in Messages :
                   /\ ~existsMatch(msg).isNull
                        => ~dependsMatch(msg).isNull /\ Len(dependsMatch(msg).s) > 0
                   /\ InfoBranch(msg) = WithoutExistsBranch(msg))
    /\ [][OnInfo => chains' = chains \o WithoutExistsBranch(versionLines[k].rec.str)]_vars

(* A message with "exists because" before the pattern has just pushed its
   chain. *)
C25_Witness ==
    /\ pc = "extract" /\ k > 1
    /\ versionLines[k - 1].rec.type = "info"
    /\ versionLines[k - 1].rec.shape = "string"
    /\ \E p \in 1..Len(versionLines[k - 1].rec.str) :
           ExistsPatternAt(versionLines[k - 1].rec.str, p)
    /\ chains # <<>>
    /\ Last(chains) = <<"b", "#", "g">>

-----------------------------------------------------------------------------
(* A Step record, a record of an unknown or missing type, or a List record
   whose sub-kind is not "reasons". *)
Inert(rec) ==
    /\ rec.json = "object"
    /\ \/ rec.type \notin {"info", "list", "tree"}
       \/ rec.type = "list" /\ ~(rec.shape = "object" /\ rec.sub = "reasons")

(* An Info record whose message is a string without the pattern, or
   absent. *)
InfoWithoutPattern(rec) ==
    /\ rec.json = "object" /\ rec.type = "info"
    /\ rec.shape \in {"string", "absent"}
    /\ ~HasPattern(rec.str)

(* The sequence without its element n. *)
Remove(list, n) == SubSeq(list, 1, n - 1) \o SubSeq(list, n + 1, Len(list))

(* What getDependencyChain makes of parseYarnWhyOutput on a text. *)
OutputOn(text, v) ==
    LET r == parseYarnWhyOutput(text, v)
    IN  IF r.threw THEN NoTranscript ELSE r.value

(* C26: an inert record triggers no transition of the segmenter and pushes
   no chain; the output for the transcript without it is the output for the
   transcript; and a retained stream of inert records and Info records
   without the pattern gives the empty list. *)
C26_InertRecords ==
    /\ [][(Processing /\ Inert(lines[i]))
            => inVersionBlock' = inVersionBlock /\ versionBlocks' = versionBlocks]_vars
    /\ [][(pc = "extract" /\ k <= Len(versionLines) /\ Inert(versionLines[k].rec))
            => chains' = chains /\ pc' = "extract"]_vars
    /\ []((pc = "done" /\ parserInvoked)
            => \A n \in 1..Len(lines) :
                   Inert(lines[n]) => OutputOn(Remove(lines, n), version) = result)
    /\ []((pc = "serialize"
             /\ \A j \in 1..Len(versionLines) :
                    Inert(versionLines[j].rec) \/ InfoWithoutPattern(versionLines[j].rec))
            => uniqueChains = <<>>)

(* Chains are returned for a transcript with an inert record retained
   between the marker and the record that gives them. *)
C26_Witness ==
    /\ ReturnedChains
    /\ \E n \in 2..(Len(lines) - 1) :
          /\ Inert(lines[n]) /\ InsideAt(n)
          /\ \E j \in 1..Len(versionLines) : versionLines[j].idx = n
          /\ OutputOn(Remove(lines, n), version) = result

-----------------------------------------------------------------------------
(* The walks of the roots that are objects, in order. *)
RECURSIVE WalksOfObjects(_)
WalksOfObjects(trees) ==
    IF Len(trees) = 0 THEN <<>>
    ELSE (IF Head(trees).obj
          THEN <<Join(FirstChildPath(Head(trees)), ARROW)>> ELSE <<>>)
             \o WalksOfObjects(Tail(trees))

(* The extractor is about to process a Tree record each root of which is
   either no object or a node with a well-formed first-child path. *)
OnTreeWithNulls ==
    /\ pc = "extract" /\ k <= Len(versionLines)
    /\ versionLines[k].rec.type = "tree"
    /\ versionLines[k].rec.shape = "object"
    /\ versionLines[k].rec.treesShape = "array"
    /\ \A n \in 1..Len(versionLines[k].rec.trees) :
           versionLines[k].rec.trees[n].obj
               => WellFormedPath(versionLines[k].rec.trees[n])

(* C27: a root that is null, undefined or no object gives no chain and no
   error: the record pushes the chains of its other roots and the loop goes
   on to the next record. *)
C27_NullRootsSkipped ==
    [][OnTreeWithNulls
         => /\ chains' = chains \o WalksOfObjects(versionLines[k].rec.trees)
            /\ pc' = "extract"
            /\ UNCHANGED <<escaped, result>>]_vars

(* The chain of a root that follows a null root has been returned. *)
C27_Witness ==
    /\ ReturnedChains
    /\ \E j \in 1..Len(versionLines) :
          /\ versionLines[j].rec.type = "tree"
          /\ versionLines[j].rec.treesShape = "array"
          /\ \E n, m \in 1..Len(versionLines[j].rec.trees) :
                /\ n < m
                /\ ~versionLines[j].rec.trees[n].obj
                /\ versionLines[j].rec.trees[m].obj
                /\ Includes(result,
                            Join(FirstChildPath(versionLines[j].rec.trees[m]), ARROW))

-----------------------------------------------------------------------------
(* The entries of a chain string: what " | " separates. *)
EntriesOf(chain) == Split(chain, PIPE)

(* An entry is a path of package names separated by "#" or by the arrow the
   tree walk joins with. *)
IsNamePath(entry) ==
    /\ Len(entry) % 2 = 1
    /\ \A n \in 1..Len(entry) :
           IF n % 2 = 0 THEN entry[n] \in {"#", ARROW}
           ELSE entry[n] \notin {"#", ARROW, PIPE, SPACE, QUOTE, AT, PROJECT}
                /\ <<entry[n]>> \notin {NoTranscript, ParseFailed}

(* The package names on the paths of a chain string. *)
NamesOnPaths(chain) ==
    UNION { { <<EntriesOf(chain)[e][n]>> :
                  n \in {m \in 1..Len(EntriesOf(chain)[e]) : m % 2 = 1} } :
            e \in 1..Len(EntriesOf(chain)) }

(* suggestReason has passed the detection for a chain string of name paths. *)
DetectionDoneOnPaths ==
    /\ mainPc \in {"ask", "prompt"}
    /\ \A e \in 1..Len(EntriesOf(depChain)) : IsNamePath(EntriesOf(depChain)[e])

(* C28 (as stated; the code violates it): when a package name on a path of
   the chain string is a member of devDependencies, suggestReason sets
   isDevDependency. *)
C28_DevDependencyDetected ==
    (DetectionDoneOnPaths /\ NamesOnPaths(depChain) \cap devDependencies # {})
        => isDevDependency

-----------------------------------------------------------------------------
(* The chain string is one chain of the tree walk: node names joined by the
   arrow of extractChainFromTree. *)
IsTreeChain(chain) ==
    /\ IsNamePath(chain)
    /\ \A n \in 1..Len(chain) : n % 2 = 0 => chain[n] = ARROW

(* Its node names, in order. *)
NodeNames(chain) == [n \in 1..((Len(chain) + 1) \div 2) |-> <<chain[2 * n - 1]>>]

(* C29 (as stated; the code violates it): a chain string that is one chain of
   the tree walk is split into its node names by extractPackageNamesFromChain
   and by the split of suggestReason, and generateTomlConfig writes one line
   per node name. *)
C29_SeparatorAgreement ==
    /\ (mainPc \in {"ask", "prompt"} /\ IsTreeChain(depChain))
          => /\ extractPackageNamesFromChain(depChain) = NodeNames(depChain)
             /\ ConsumerSplit(depChain) = NodeNames(depChain)
    /\ (mainPc = "exited" /\ Len(config) = 1
            /\ IsTreeChain(vulnerabilities[1].dependency_chain))
          => config[1].depLines = NodeNames(vulnerabilities[1].dependency_chain)

-----------------------------------------------------------------------------
(* The one-to-one maps of 1..n onto itself. *)
Bijections(n) ==
    { f \in [1..n -> 1..n] : \A a, b \in 1..n : f[a] = f[b] => a = b }

(* The entries of a generated text are those of the vulnerabilities vs, each
   with the block of alternative reasons exactly when its reason is the one
   of choice 4. *)
BlocksFollowChoice(entries, vs) ==
    /\ Len(entries) = Len(vs)
    /\ \E f \in Bijections(Len(vs)) :
           \A n \in 1..Len(vs) :
               /\ entries[n].name = vs[f[n]].name
               /\ entries[n].reason = vs[f[n]].reason
               /\ entries[n].alternativeReasons
                     <=> (vs[f[n]].reason = StatedReason["4"])

(* C30: the loop of suggestReason is left only on one of the answers "1" to
   "4"; any other answer leaves the run at the prompt and records nothing;
   the entry recorded has the reason of the answer and its show_alternatives
   flag is set exactly for "4"; and generateTomlConfig writes the block
   "Alternative reasons to consider" for exactly the entries of answer "4". *)
C30_DispositionPrompt ==
    /\ [][mainPc = "prompt"
            => IF choice' \in DOMAIN StatedReason
               THEN /\ mainPc' # "prompt"
                    /\ Len(vulnerabilities') = Len(vulnerabilities) + 1
                    /\ SubSeq(vulnerabilities', 1, Len(vulnerabilities)) = vulnerabilities
                    /\ vulnerabilities'[Len(vulnerabilities')].reason
                          = StatedReason[choice']
                    /\ vulnerabilities'[Len(vulnerabilities')].show_alternatives
                          <=> (choice' = "4")
               ELSE /\ mainPc' = "prompt"
                    /\ vulnerabilities' = vulnerabilities]_vars
    /\ [][(mainPc = "generate" /\ Len(vulnerabilities) > 0)
            => BlocksFollowChoice(config', vulnerabilities)]_vars

(* Two packages were treated, the first with answer "4" and the second with
   answer "1"; the text lists the second package first, without the block,
   and the first package second, with the block. *)
C30_Witness ==
    /\ mainPc = "exited"
    /\ choice = "1"
    /\ Len(vulnerabilities) = 2
    /\ vulnerabilities[1].name = "q" /\ vulnerabilities[1].show_alternatives
    /\ vulnerabilities[2].name = "p" /\ ~vulnerabilities[2].show_alternatives
    /\ Len(config) = 2
    /\ config[1].name = "p" /\ ~config[1].alternativeReasons
    /\ config[2].name = "q" /\ config[2].alternativeReasons

=============================================================================
